---- MODULE Spec2Model ----
(***************************************************************************)
(* Model of the request-authentication and dispatch core of the FC client  *)
(* (src/src/library/client.ts): FCClient's constructor, buildHeaders,      *)
(* request, post, invokeFunction, getSignature, and the canonical string   *)
(* builder composeStringToSign / buildCanonicalHeaders.                    *)
(*                                                                         *)
(* JavaScript values are represented as follows.                           *)
(*   string             a TLA+ string                                      *)
(*   T | undefined      a sequence of length 0 (undefined/null) or 1       *)
(*   object (a map)     a sequence of <<key, value>> pairs with distinct   *)
(*                      keys, in insertion order                           *)
(*   Buffer / body      a record tagged with the kind of the value         *)
(***************************************************************************)
EXTENDS Naturals, Sequences, FiniteSets, TLC

VARIABLES given, client, ctorError, calls, wire, canon

vars == <<given, client, ctorError, calls, wire, canon>>

-----------------------------------------------------------------------------
(* Strings                                                                 *)

\* The characters that occur in keys and values, in UTF-16 code unit order.
CodeUnitOrder == "\n !\"%&()*+,-./0123456789:;=?ABCDEFGHIJKLMNOPQRSTUVWXYZ[]_abcdefghijklmnopqrstuvwxyz{}"

UpperCase == "ABCDEFGHIJKLMNOPQRSTUVWXYZ"

LowerCase == "abcdefghijklmnopqrstuvwxyz"

CharAt(s, i) == SubSeq(s, i, i)

Rest(s) == SubSeq(s, 2, Len(s))

CharsOf(s) == {CharAt(s, i) : i \in 1..Len(s)}

IndexIn(s, c) == CHOOSE i \in 1..Len(s) : CharAt(s, i) = c

\* The position of a character in the code unit order (what < compares).
CodeUnit == [c \in CharsOf(CodeUnitOrder) |-> IndexIn(CodeUnitOrder, c)]

\* JavaScript's a < b on strings: lexicographic by code unit.
RECURSIVE StrLess(_, _)
StrLess(a, b) ==
  IF b = "" THEN FALSE
  ELSE IF a = "" THEN TRUE
  ELSE IF CharAt(a, 1) # CharAt(b, 1)
       THEN CodeUnit[CharAt(a, 1)] < CodeUnit[CharAt(b, 1)]
       ELSE StrLess(Rest(a), Rest(b))

\* String.prototype.startsWith
StartsWith(s, prefix) ==
  Len(s) >= Len(prefix) /\ SubSeq(s, 1, Len(prefix)) = prefix

EndsWith(s, suffix) ==
  Len(s) >= Len(suffix) /\ SubSeq(s, Len(s) - Len(suffix) + 1, Len(s)) = suffix

UpperChars == CharsOf(UpperCase)

LowerChar(c) ==
  IF c \in UpperChars THEN CharAt(LowerCase, IndexIn(UpperCase, c)) ELSE c

\* String.prototype.toLowerCase
RECURSIVE ToLowerCase(_)
ToLowerCase(s) ==
  IF s = "" THEN "" ELSE LowerChar(CharAt(s, 1)) \o ToLowerCase(Rest(s))

IsSpace(c) == c \in {" ", "\n"}

RECURSIVE TrimStart(_)
TrimStart(s) ==
  IF s # "" /\ IsSpace(CharAt(s, 1)) THEN TrimStart(Rest(s)) ELSE s

RECURSIVE TrimEnd(_)
TrimEnd(s) ==
  IF s # "" /\ IsSpace(CharAt(s, Len(s)))
  THEN TrimEnd(SubSeq(s, 1, Len(s) - 1)) ELSE s

\* String.prototype.trim
Trim(s) == TrimEnd(TrimStart(s))

\* Array.prototype.join
RECURSIVE Join(_, _)
Join(list, sep) ==
  IF list = <<>> THEN ""
  ELSE IF Len(list) = 1 THEN list[1]
  ELSE list[1] \o sep \o Join(Tail(list), sep)

\* The lines of a string: String.prototype.split on "\n".
Lines(s) ==
  LET breaks == {i \in 1..Len(s) : CharAt(s, i) = "\n"}
      n == Cardinality(breaks)
      At(k) == IF k = 0 THEN 0
               ELSE IF k = n + 1 THEN Len(s) + 1
               ELSE CHOOSE p \in breaks : Cardinality({q \in breaks : q < p}) = k - 1
  IN  [k \in 1..(n + 1) |-> SubSeq(s, At(k - 1) + 1, At(k) - 1)]

Range(f) == {f[i] : i \in DOMAIN f}

\* Array.prototype.sort with the default comparator, on a list of strings:
\* ascending by code unit (an insertion sort; equal strings are identical).
RECURSIVE InsertSorted(_, _)
InsertSorted(list, s) ==
  IF list = <<>> THEN <<s>>
  ELSE IF StrLess(s, list[1]) THEN <<s>> \o list
  ELSE <<list[1]>> \o InsertSorted(Tail(list), s)

RECURSIVE SortStrings(_)
SortStrings(list) ==
  IF list = <<>> THEN <<>>
  ELSE InsertSorted(SortStrings(SubSeq(list, 1, Len(list) - 1)), list[Len(list)])

\* Template-literal / String() conversion of a possibly undefined string.
Undefined == <<>>

Some(v) == <<v>>

ToStr(opt) == IF opt = Undefined THEN "undefined" ELSE opt[1]

\* JavaScript truthiness of a possibly undefined string.
Truthy(opt) == opt # Undefined /\ opt[1] # ""

\* Decimal text of the small numbers that occur (lengths, status codes).
Digits == "0123456789"

RECURSIVE NumToStr(_)
NumToStr(n) ==
  IF n < 10 THEN CharAt(Digits, n + 1)
  ELSE NumToStr(n \div 10) \o CharAt(Digits, (n % 10) + 1)

-----------------------------------------------------------------------------
(* Objects used as maps: sequences of <<key, value>> in insertion order    *)

Keys(obj) == [i \in DOMAIN obj |-> obj[i][1]]

HasKey(obj, k) == \E i \in DOMAIN obj : obj[i][1] = k

\* obj[k]
Get(obj, k) ==
  IF HasKey(obj, k)
  THEN Some(obj[CHOOSE i \in DOMAIN obj : obj[i][1] = k][2])
  ELSE Undefined

\* obj[k] = v: an existing key keeps its position, a new key is appended.
Set(obj, k, v) ==
  IF HasKey(obj, k)
  THEN [i \in DOMAIN obj |-> IF obj[i][1] = k THEN <<k, v>> ELSE obj[i]]
  ELSE Append(obj, <<k, v>>)

\* Object.assign(target, source)
RECURSIVE Assign(_, _)
Assign(target, source) ==
  IF source = <<>> THEN target
  ELSE Assign(Set(target, source[1][1], source[1][2]), Tail(source))

-----------------------------------------------------------------------------
(* Encodings                                                               *)

\* The percent escapes of the characters that are not letters or digits.
PercentCodes ==
  << <<"\n", "0A">>, <<" ", "20">>, <<"!", "21">>, <<"\"", "22">>,
     <<"%", "25">>, <<"&", "26">>, <<"(", "28">>, <<")", "29">>,
     <<"*", "2A">>, <<"+", "2B">>, <<",", "2C">>, <<"-", "2D">>,
     <<".", "2E">>, <<"/", "2F">>, <<":", "3A">>, <<";", "3B">>,
     <<"=", "3D">>, <<"?", "3F">>, <<"A", "41">>, <<"[", "5B">>,
     <<"]", "5D">>, <<"_", "5F">>, <<"{", "7B">>, <<"}", "7D">> >>

PercentOf(c) == "%" \o PercentCodes[CHOOSE i \in DOMAIN PercentCodes : PercentCodes[i][1] = c][2]

IsEscape(hex) == \E i \in DOMAIN PercentCodes : PercentCodes[i][2] = hex

Unescape(hex) == PercentCodes[CHOOSE i \in DOMAIN PercentCodes : PercentCodes[i][2] = hex][1]

\* decodeURIComponent: every %XX becomes its character; a % that does not
\* start an escape makes it throw URIError (ok = FALSE).
RECURSIVE DecodeURIComponent(_)
DecodeURIComponent(s) ==
  LET marks == {i \in 1..Len(s) : CharAt(s, i) = "%"}
      first == CHOOSE i \in marks : \A j \in marks : i <= j
  IN  IF marks = {} THEN [ok |-> TRUE, value |-> s]
      ELSE IF Len(s) >= first + 2 /\ IsEscape(SubSeq(s, first + 1, first + 2))
      THEN LET r == DecodeURIComponent(SubSeq(s, first + 3, Len(s)))
           IN  [ok |-> r.ok,
                value |-> SubSeq(s, 1, first - 1)
                            \o Unescape(SubSeq(s, first + 1, first + 2)) \o r.value]
      ELSE [ok |-> FALSE, value |-> ""]

\* The application/x-www-form-urlencoded byte serializer used by
\* URLSearchParams.prototype.toString.
FormUnreserved == CharsOf(UpperCase) \cup CharsOf(LowerCase) \cup CharsOf("0123456789*-._")

RECURSIVE FormEncode(_)
FormEncode(s) ==
  IF s = "" THEN ""
  ELSE LET c == CharAt(s, 1)
       IN  (IF c \in FormUnreserved THEN c
            ELSE IF c = " " THEN "+"
            ELSE PercentOf(c)) \o FormEncode(Rest(s))

\* A query value: a string, an array of strings, or a number (v holds the
\* string, the elements, or the number's decimal text).
QStr(s) == [type |-> "string", v |-> <<s>>]

QArr(list) == [type |-> "array", v |-> list]

QNum(s) == [type |-> "number", v |-> <<s>>]

\* String(value), as URLSearchParams converts each value of a record.
QueryValueToString(val) == Join(val.v, ",")

\* new URLSearchParams(query).toString()
URLSearchParamsToString(query) ==
  Join([i \in DOMAIN query |->
          FormEncode(query[i][1]) \o "=" \o FormEncode(QueryValueToString(query[i][2]))],
       "&")

\* kitx.md5(buff, 'hex'): the digest is an uninterpreted injective function
\* of the bytes.
Md5Hex(bytes) == "md5hex(" \o bytes \o ")"

\* Buffer.from(text, 'utf8').toString('base64'), uninterpreted and injective.
Base64(text) == "base64(" \o text \o ")"

\* crypto.createHmac('sha256', secret).update(source, 'utf8').digest(),
\* uninterpreted and injective in both arguments.
HmacSha256(secret, source) == "hmacsha256(" \o secret \o ";" \o source \o ")"

signString(source, secret) == Base64(HmacSha256(secret, source))

-----------------------------------------------------------------------------
(* Canonical string builder                                                *)

\* The first loop of buildCanonicalHeaders: the lower-cased, trimmed keys
\* that start with the prefix (list) and the object fcHeaders.
RECURSIVE SelectHeaders(_, _, _, _)
SelectHeaders(headers, prefix, list, fcHeaders) ==
  IF headers = <<>> THEN [list |-> list, fcHeaders |-> fcHeaders]
  ELSE LET key == headers[1][1]
           lowerKey == Trim(ToLowerCase(key))
       IN  IF StartsWith(lowerKey, prefix)
           THEN SelectHeaders(Tail(headers), prefix, Append(list, lowerKey),
                              Set(fcHeaders, lowerKey, headers[1][2]))
           ELSE SelectHeaders(Tail(headers), prefix, list, fcHeaders)

buildCanonicalHeaders(headers, prefix) ==
  LET sel == SelectHeaders(headers, prefix, <<>>, <<>>)
      list == SortStrings(sel.list)
  IN  Join([i \in DOMAIN list |->
              list[i] \o ":" \o ToStr(Get(sel.fcHeaders, list[i])) \o "\n"], "")

\* The pairs pushed for one key of the query mapping.
QueryParams(key, val) ==
  IF val.type = "string" THEN <<key \o "=" \o val.v[1]>>
  ELSE IF val.type = "array" THEN [i \in DOMAIN val.v |-> key \o "=" \o val.v[i]]
  ELSE <<>>

RECURSIVE CollectParams(_)
CollectParams(queries) ==
  IF queries = <<>> THEN <<>>
  ELSE QueryParams(queries[1][1], queries[1][2]) \o CollectParams(Tail(queries))

\* headers[k] || ''
OrEmpty(opt) == IF Truthy(opt) THEN opt[1] ELSE ""

\* composeStringToSign that appends the pairs only for a mapping with a key.
composeStringToSignNonEmpty(method, path, headers, queries) ==
  LET contentMD5 == OrEmpty(Get(headers, "content-md5"))
      contentType == OrEmpty(Get(headers, "content-type"))
      date == ToStr(Get(headers, "date"))
      signHeaders == buildCanonicalHeaders(headers, "x-fc-")
      pathUnescaped == DecodeURIComponent(path)
      str == method \o "\n" \o contentMD5 \o "\n" \o contentType \o "\n" \o date
               \o "\n" \o signHeaders \o pathUnescaped.value
  IN  IF ~pathUnescaped.ok THEN [ok |-> FALSE, value |-> ""]
      ELSE IF queries # Undefined /\ queries[1] # <<>>
      THEN [ok |-> TRUE,
            value |-> str \o "\n" \o Join(SortStrings(CollectParams(queries[1])), "\n")]
      ELSE [ok |-> TRUE, value |-> str]

\* composeStringToSign; queries is Undefined or Some(mapping). ok = FALSE
\* when decodeURIComponent throws.
composeStringToSign(method, path, headers, queries) ==
  LET contentMD5 == OrEmpty(Get(headers, "content-md5"))
      contentType == OrEmpty(Get(headers, "content-type"))
      date == ToStr(Get(headers, "date"))
      signHeaders == buildCanonicalHeaders(headers, "x-fc-")
      pathUnescaped == DecodeURIComponent(path)
      str == method \o "\n" \o contentMD5 \o "\n" \o contentType \o "\n" \o date
               \o "\n" \o signHeaders \o pathUnescaped.value
  IN  IF ~pathUnescaped.ok THEN [ok |-> FALSE, value |-> ""]
      ELSE IF queries # Undefined
      THEN [ok |-> TRUE,
            value |-> str \o "\n" \o Join(SortStrings(CollectParams(queries[1])), "\n")]
      ELSE [ok |-> TRUE, value |-> str]

\* FCClient.getSignature
getSignature(accessKeyID, accessKeySecret, method, path, headers, queries) ==
  LET stringToSign == composeStringToSign(method, path, headers, queries)
  IN  [ok |-> stringToSign.ok,
       stringToSign |-> stringToSign.value,
       value |-> "FC " \o accessKeyID \o ":" \o signString(stringToSign.value, accessKeySecret)]

-----------------------------------------------------------------------------
(* FCClient: construction                                                  *)

DefaultTimeout == 60000

\* The constructor without the check of the session token of an STS key.
FCClientNoTokenCheck(accountId, config) ==
  IF accountId = "" THEN
    [error |-> "\"accountid\" must be passed in", self |-> Undefined]
  ELSE IF config = Undefined THEN
    [error |-> "\"config\" must be passed in", self |-> Undefined]
  ELSE LET cfg == config[1] IN
  IF ~Truthy(cfg.accessKeyID) THEN
    [error |-> "\"config.accessKeyID\" must be passed in", self |-> Undefined]
  ELSE IF ~Truthy(cfg.accessKeySecret) THEN
    [error |-> "\"config.accessKeySecret\" must be passed in", self |-> Undefined]
  ELSE IF ~Truthy(cfg.region) THEN
    [error |-> "\"config.region\" must be passed in", self |-> Undefined]
  ELSE
    LET host == accountId \o "." \o cfg.region[1] \o ".fc.aliyuncs.com"
    IN  [error |-> "",
         self |-> Some([
           accountId |-> accountId,
           accessKeyID |-> cfg.accessKeyID[1],
           securityToken |-> cfg.securityToken,
           accessKeySecret |-> cfg.accessKeySecret[1],
           endpoint |-> "http://" \o host,
           host |-> host,
           version |-> "2016-08-15",
           timeout |-> DefaultTimeout,
           headers |-> IF cfg.headers # Undefined THEN cfg.headers[1] ELSE <<>>])]

\* new FCClient(accountId, config). config is Undefined or Some of a record
\* of optional fields. error is the message of the TypeError thrown ("" when
\* none is); self is the instance, which exists only when nothing is thrown.
FCClient(accountId, config) ==
  IF accountId = "" THEN
    [error |-> "\"accountid\" must be passed in", self |-> Undefined]
  ELSE IF config = Undefined THEN
    [error |-> "\"config\" must be passed in", self |-> Undefined]
  ELSE LET cfg == config[1] IN
  IF ~Truthy(cfg.accessKeyID) THEN
    [error |-> "\"config.accessKeyID\" must be passed in", self |-> Undefined]
  ELSE IF StartsWith(cfg.accessKeyID[1], "STS") /\ ~Truthy(cfg.securityToken) THEN
    [error |-> "\"config.securityToken\" must be passed in for STS", self |-> Undefined]
  ELSE IF ~Truthy(cfg.accessKeySecret) THEN
    [error |-> "\"config.accessKeySecret\" must be passed in", self |-> Undefined]
  ELSE IF ~Truthy(cfg.region) THEN
    [error |-> "\"config.region\" must be passed in", self |-> Undefined]
  ELSE
    LET protocol == IF Truthy(cfg.secure) THEN "https" ELSE "http"
        internal == IF Truthy(cfg.internal) THEN "-internal" ELSE ""
        host == accountId \o "." \o cfg.region[1] \o internal \o ".fc.aliyuncs.com"
    IN  [error |-> "",
         self |-> Some([
           accountId |-> accountId,
           accessKeyID |-> cfg.accessKeyID[1],
           securityToken |-> IF StartsWith(cfg.accessKeyID[1], "STS")
                             THEN cfg.securityToken ELSE Undefined,
           accessKeySecret |-> cfg.accessKeySecret[1],
           endpoint |-> IF Truthy(cfg.endpoint) THEN cfg.endpoint[1]
                        ELSE protocol \o "://" \o host,
           host |-> host,
           version |-> "2016-08-15",
           timeout |-> IF cfg.timeout # Undefined THEN cfg.timeout[1] ELSE DefaultTimeout,
           headers |-> IF cfg.headers # Undefined THEN cfg.headers[1] ELSE <<>>])]

-----------------------------------------------------------------------------
(* FCClient.request: the synchronous part, up to the transport call        *)

\* process.version, process.platform and process.arch of the running Node.js.
UserAgent == "Node.js(v16.20.2) OS(linux/x64) SDK(@alicloud/fc2@v2.2.2)"

\* FCClient.buildHeaders; now is new Date().toUTCString().
buildHeaders(self, now) ==
  LET headers == << <<"accept", "application/json">>,
                    <<"date", now>>,
                    <<"host", self.host>>,
                    <<"user-agent", UserAgent>>,
                    <<"x-fc-account-id", self.accountId>> >>
  IN  IF Truthy(self.securityToken)
      THEN Set(headers, "x-fc-security-token", self.securityToken[1])
      ELSE headers

\* mergeHeaders with the sources in the opposite order: the computed
\* defaults are assigned last.
mergeHeadersDefaultsLast(self, headers, now) ==
  Assign(Assign(IF headers = Undefined THEN <<>> ELSE headers[1], self.headers),
         buildHeaders(self, now))

\* headers = Object.assign(this.buildHeaders(), this.headers, headers);
\* headers is Undefined or Some(the caller's object).
mergeHeaders(self, headers, now) ==
  Assign(Assign(buildHeaders(self, now), self.headers),
         IF headers = Undefined THEN <<>> ELSE headers[1])

\* The header objects a call of request holds references to: the one
\* buildHeaders makes for the call, this.headers, and the caller's (Undefined
\* when the caller gives none).
HeaderObjects(self, headers, now) ==
  [defaults |-> buildHeaders(self, now), client |-> self.headers, caller |-> headers]

\* Object.assign with the caller's headers as its first argument.
AssignTargetCaller == "caller"

\* Object.assign with this.headers as its first argument.
AssignTargetClient == "client"

\* Object.assign writes to and returns its first argument, here the object
\* buildHeaders has just made; the later writes of request (the body-derived
\* headers, authorization) go to the object it returned.
AssignTarget == "defaults"

\* The header objects after the call has written its headers: written is the
\* content of the object Object.assign returned after the last write.
writeHeaders(self, headers, now, written) ==
  [HeaderObjects(self, headers, now) EXCEPT
     ![AssignTarget] = IF AssignTarget # "caller" THEN written
                       ELSE IF headers = Undefined THEN Undefined ELSE Some(written)]

\* The url of the request.
buildUrl(self, path, query) ==
  LET url == self.endpoint \o "/" \o self.version \o path
  IN  IF query # Undefined /\ Len(query[1]) > 0
      THEN url \o "?" \o URLSearchParamsToString(query[1])
      ELSE url

\* A request body: kind is "null" (null or undefined), "string", "buffer",
\* "stream" (an object with a pipe function), "object" (a value that
\* JSON.stringify turns into the text data), "circular" (an object on which
\* JSON.stringify throws) or "number" (data is its decimal text).
Body(kind, data) == [kind |-> kind, data |-> data]

\* if (body)
BodyTruthy(body) ==
  CASE body.kind = "null" -> FALSE
    [] body.kind = "string" -> body.data # ""
    [] body.kind = "number" -> body.data # "0"
    [] OTHER -> TRUE

\* 'function' === typeof body.pipe
IsStream(body) == body.kind = "stream"

NoData == [kind |-> "none", data |-> ""]

\* obj[k] = v only when obj has no key k.
SetIfAbsent(obj, k, v) == IF HasKey(obj, k) THEN obj ELSE Set(obj, k, v)

\* encodeBody that leaves a content-type, content-length or content-md5 of
\* the merged headers in place.
encodeBodyKeepGiven(body, headers) ==
  IF ~BodyTruthy(body) THEN
    [threw |-> FALSE, headers |-> headers, postBody |-> NoData]
  ELSE IF body.kind = "circular" THEN
    [threw |-> TRUE, headers |-> headers, postBody |-> NoData]
  ELSE
    LET buff == [kind |-> IF IsStream(body) THEN "stream" ELSE "buffer", data |-> body.data]
        typed == SetIfAbsent(headers, "content-type",
                             IF body.kind \in {"buffer", "string", "stream"}
                             THEN "application/octet-stream" ELSE "application/json")
    IN  IF ~IsStream(body)
        THEN [threw |-> FALSE,
              headers |-> SetIfAbsent(SetIfAbsent(typed, "content-length",
                                                  NumToStr(Len(buff.data))),
                                      "content-md5", Base64(Md5Hex(buff.data))),
              postBody |-> buff]
        ELSE [threw |-> FALSE, headers |-> typed, postBody |-> buff]

\* encodeBody that buffers a stream like every other body: it sets
\* content-length and content-md5 and hands a Buffer to the transport.
encodeBodyBufferStream(body, headers) ==
  IF ~BodyTruthy(body) THEN
    [threw |-> FALSE, headers |-> headers, postBody |-> NoData]
  ELSE IF body.kind = "circular" THEN
    [threw |-> TRUE, headers |-> headers, postBody |-> NoData]
  ELSE
    LET buff == [kind |-> "buffer", data |-> body.data]
        typed == Set(headers, "content-type",
                     IF body.kind \in {"buffer", "string", "stream"}
                     THEN "application/octet-stream" ELSE "application/json")
    IN  [threw |-> FALSE,
         headers |-> Set(Set(typed, "content-length", NumToStr(Len(buff.data))),
                         "content-md5", Base64(Md5Hex(buff.data))),
         postBody |-> buff]

\* The body branch of request: the headers after the body-derived ones are
\* set, and postBody. threw is TRUE when JSON.stringify throws.
encodeBody(body, headers) ==
  IF ~BodyTruthy(body) THEN
    [threw |-> FALSE, headers |-> headers, postBody |-> NoData]
  ELSE IF body.kind = "circular" THEN
    [threw |-> TRUE, headers |-> headers, postBody |-> NoData]
  ELSE
    LET buff == IF body.kind = "buffer" THEN [kind |-> "buffer", data |-> body.data]
                ELSE IF body.kind = "string" THEN [kind |-> "buffer", data |-> body.data]
                ELSE IF IsStream(body) THEN [kind |-> "stream", data |-> body.data]
                ELSE [kind |-> "buffer", data |-> body.data]
        typed == Set(headers, "content-type",
                     IF body.kind \in {"buffer", "string", "stream"}
                     THEN "application/octet-stream" ELSE "application/json")
    IN  IF ~IsStream(body)
        THEN [threw |-> FALSE,
              headers |-> Set(Set(typed, "content-length", NumToStr(Len(buff.data))),
                              "content-md5", Base64(Md5Hex(buff.data))),
              postBody |-> buff]
        ELSE [threw |-> FALSE, headers |-> typed, postBody |-> buff]

\* queriesToSign without the test of the path: the query is signed on every
\* path.
queriesToSignEveryPath(path, query) ==
  IF query = Undefined THEN Some(<<>>) ELSE query

\* The queries given to getSignature: Undefined, or Some(query || {}).
queriesToSign(path, query) ==
  IF StartsWith(path, "/proxy/")
  THEN IF query = Undefined THEN Some(<<>>) ELSE query
  ELSE Undefined

\* prepare that signs the merged headers before the body-derived headers are
\* written to them.
prepareSignsMergedHeaders(self, method, path, query, body, headers, now) ==
  LET url == buildUrl(self, path, query)
      merged == mergeHeaders(self, headers, now)
      enc == encodeBody(body, merged)
      toSign == queriesToSign(path, query)
      signature == getSignature(self.accessKeyID, self.accessKeySecret, method,
                                "/" \o self.version \o path, merged, toSign)
  IN  [threw |-> IF enc.threw THEN "TypeError"
                 ELSE IF ~signature.ok THEN "URIError" ELSE "",
       signedPath |-> "/" \o self.version \o path,
       signedHeaders |-> merged,
       signedQueries |-> toSign,
       stringToSign |-> signature.stringToSign,
       url |-> url,
       method |-> method,
       timeout |-> self.timeout,
       headers |-> Set(enc.headers, "authorization", signature.value),
       data |-> enc.postBody]

\* request up to the call of httpx.request. threw names the exception that
\* ends the call before the transport is reached ("" when none does).
prepare(self, method, path, query, body, headers, now) ==
  LET url == buildUrl(self, path, query)
      enc == encodeBody(body, mergeHeaders(self, headers, now))
      toSign == queriesToSign(path, query)
      signature == getSignature(self.accessKeyID, self.accessKeySecret, method,
                                "/" \o self.version \o path, enc.headers, toSign)
  IN  [threw |-> IF enc.threw THEN "TypeError"
                 ELSE IF ~signature.ok THEN "URIError" ELSE "",
       signedPath |-> "/" \o self.version \o path,
       signedHeaders |-> enc.headers,
       signedQueries |-> toSign,
       stringToSign |-> signature.stringToSign,
       url |-> url,
       method |-> method,
       timeout |-> self.timeout,
       headers |-> Set(enc.headers, "authorization", signature.value),
       data |-> enc.postBody]

\* The content of the merged header object when the synchronous part of
\* request ends: JSON.stringify throws before a body-derived header is
\* written, decodeURIComponent before authorization is.
lastHeaders(self, headers, now, req) ==
  IF req.threw = "TypeError" THEN mergeHeaders(self, headers, now)
  ELSE IF req.threw = "URIError" THEN req.signedHeaders
  ELSE req.headers

-----------------------------------------------------------------------------
(* FCClient.request: the response                                          *)

\* A decoded or parsed value: a string, a Buffer, or the result of
\* JSON.parse (an object with its fields, or null).
Value(type, text, fields) == [type |-> type, text |-> text, fields |-> fields]

NoValue == Value("none", "", <<>>)

\* readEncoding without the test of the x-fc-error-type header.
readEncodingByOptionOnly(opts, response) ==
  IF ~opts.rawBuf THEN "utf8" ELSE "raw"

\* The encoding given to httpx.read: 'utf8', or undefined (raw bytes).
readEncoding(opts, response) ==
  IF ~opts.rawBuf \/ Truthy(Get(response.headers, "x-fc-error-type"))
  THEN "utf8" ELSE "raw"

\* httpx.read(response, encoding)
read(response, encoding) ==
  IF encoding = "utf8" THEN Value("string", response.body, <<>>)
  ELSE Value("buffer", response.body, <<>>)

\* The JSON texts that occur in responses, with the value each parses to.
JsonDocuments ==
  << <<"{\"ErrorCode\":\"ServiceNotFound\",\"ErrorMessage\":\"foo\"}",
       Value("object", "", << <<"ErrorCode", "ServiceNotFound">>, <<"ErrorMessage", "foo">> >>)>>,
     <<"{\"ErrorCode\":\"AccessDenied\",\"errorMessage\":\"bar\"}",
       Value("object", "", << <<"ErrorCode", "AccessDenied">>, <<"errorMessage", "bar">> >>)>>,
     <<"{\"serviceName\":\"s\"}",
       Value("object", "", << <<"serviceName", "s">> >>)>>,
     <<"null", Value("null", "", <<>>)>> >>

\* JSON.parse(String(responseBody)): ok = FALSE when it throws SyntaxError.
JSONParse(responseBody) ==
  IF \E i \in DOMAIN JsonDocuments : JsonDocuments[i][1] = responseBody.text
  THEN [ok |-> TRUE,
        value |-> JsonDocuments[CHOOSE i \in DOMAIN JsonDocuments :
                                  JsonDocuments[i][1] = responseBody.text][2]]
  ELSE [ok |-> FALSE, value |-> NoValue]

\* value[name] for a value that is not null or undefined.
Prop(value, name) ==
  IF value.type = "object" THEN Get(value.fields, name) ELSE Undefined

Err(name, code, message) == [name |-> name, code |-> code, message |-> message]

NoError == Err("", Undefined, "")

Pending == [state |-> "pending", headers |-> <<>>, data |-> NoValue, error |-> NoError]

Rejected(error) ==
  [state |-> "rejected", headers |-> <<>>, data |-> NoValue, error |-> error]

\* An exception thrown before a promise exists.
Thrown(error) ==
  [state |-> "thrown", headers |-> <<>>, data |-> NoValue, error |-> error]

Fulfilled(headers, data) ==
  [state |-> "fulfilled", headers |-> headers, data |-> data, error |-> NoError]

StatusLow == 200

StatusHigh == 300

\* parseBody that swallows a parse failure and keeps the unparsed body.
parseBodyLenient(response, responseBody) ==
  LET contentType == OrEmpty(Get(response.headers, "content-type"))
      parsed == JSONParse(responseBody)
  IN  IF StartsWith(contentType, "application/json") /\ parsed.ok
      THEN parsed
      ELSE [ok |-> TRUE, value |-> responseBody]

\* The body of the response after the content-type branch: the parsed value
\* when the content-type begins with application/json.
parseBody(response, responseBody) ==
  LET contentType == OrEmpty(Get(response.headers, "content-type"))
  IN  IF StartsWith(contentType, "application/json")
      THEN JSONParse(responseBody)
      ELSE [ok |-> TRUE, value |-> responseBody]

\* apiError that reads the message from ErrorMessage only.
apiErrorOneCasing(method, path, response, responseBody) ==
  LET requestid == Get(response.headers, "x-fc-request-id")
      errMsg == Prop(responseBody, "ErrorMessage")
  IN  Err("FC" \o ToStr(Prop(responseBody, "ErrorCode")) \o "Error",
          Prop(responseBody, "ErrorCode"),
          method \o " " \o path \o " failed with " \o NumToStr(response.statusCode)
            \o ". requestid: " \o ToStr(requestid) \o ", message: " \o ToStr(errMsg) \o ".")

\* The error thrown for a status outside [200, 300).
apiError(method, path, response, responseBody) ==
  LET requestid == Get(response.headers, "x-fc-request-id")
      errMsg == IF Truthy(Prop(responseBody, "ErrorMessage"))
                THEN Prop(responseBody, "ErrorMessage")
                ELSE Prop(responseBody, "errorMessage")
  IN  Err("FC" \o ToStr(Prop(responseBody, "ErrorCode")) \o "Error",
          Prop(responseBody, "ErrorCode"),
          method \o " " \o path \o " failed with " \o NumToStr(response.statusCode)
            \o ". requestid: " \o ToStr(requestid) \o ", message: " \o ToStr(errMsg) \o ".")

\* interpret without the test of the status: every decoded body is returned.
interpretAnyStatus(method, path, response, responseBody) ==
  LET parsed == parseBody(response, responseBody)
  IN  IF ~parsed.ok THEN
        Rejected(Err("SyntaxError", Undefined, "Unexpected token in JSON"))
      ELSE Fulfilled(response.headers, parsed.value)

\* request after the body has been read: the promise's outcome.
interpret(method, path, response, responseBody) ==
  LET parsed == parseBody(response, responseBody)
  IN  IF ~parsed.ok THEN
        Rejected(Err("SyntaxError", Undefined, "Unexpected token in JSON"))
      ELSE IF response.statusCode < StatusLow \/ response.statusCode >= StatusHigh THEN
        IF parsed.value.type = "null"
        THEN Rejected(Err("TypeError", Undefined,
                          "Cannot read property 'ErrorMessage' of null"))
        ELSE Rejected(apiError(method, path, response, parsed.value))
      ELSE Fulfilled(response.headers, parsed.value)

-----------------------------------------------------------------------------
(* Inputs                                                                  *)

AccountIds == {"", "acct"}

ClientHeaders ==
  << <<"accept", "*/*">>, <<"x-fc-invocation-type", "Sync">>, <<"x-client", "1">> >>

Configs ==
  {Undefined} \cup
  {Some([accessKeyID |-> k, accessKeySecret |-> s, region |-> r,
         securityToken |-> t, headers |-> h, secure |-> Undefined,
         internal |-> Undefined, endpoint |-> Undefined, timeout |-> Undefined]) :
     k \in {Some(""), Some("ak"), Some("STS.ak")},
     s \in {Some(""), Some("sk")},
     r \in {Some(""), Some("cn-shanghai")},
     t \in {Undefined, Some("tok")},
     h \in {Undefined, Some(ClientHeaders)}}

Methods == {"GET", "POST"}

\* A path outside the passthrough prefix with an escaped character, a path
\* inside it, and a path with a malformed escape.
Paths == {"/services/s%41", "/proxy/s/f/x", "/services/%"}

Queries ==
  {Undefined,
   Some(<<>>),
   Some(<< <<"b", QArr(<<"2", "1">>)>>, <<"a", QStr("x y")>> >>),
   Some(<< <<"limit", QNum("10")>> >>)}

Bodies ==
  {Body("null", ""), Body("string", ""), Body("string", "hi"),
   Body("buffer", ""), Body("buffer", "abc"), Body("stream", ""),
   Body("object", "{\"serviceName\":\"s\"}"), Body("circular", "")}

CallHeaders ==
  {Undefined,
   Some(<< <<"x-fc-invocation-type", "Async">>, <<"date", "Thu, 01 Jan 1970 00:00:00 GMT">>,
           <<"X-Call", "2">> >>),
   Some(<< <<"content-type", "text/plain">>, <<"content-length", "99">>,
           <<"content-md5", "bogus">> >>),
   Some(<< <<"authorization", "Basic abc">> >>)}

Opts == {[rawBuf |-> FALSE], [rawBuf |-> TRUE]}

Dates == {"Tue, 15 Nov 1994 08:12:31 GMT"}

Args(method, path, query, body, headers, opts) ==
  [method |-> method, path |-> path, query |-> query, body |-> body,
   headers |-> headers, opts |-> opts]

\* Every combination of the arguments of request.
RequestInputs ==
  {Args(m, p, q, b, h, o) :
     m \in Methods, p \in Paths, q \in Queries, b \in Bodies, h \in CallHeaders, o \in Opts}

\* A few requests, for the behaviours that vary the response.
RequestInputsBasic ==
  {Args(m, "/services/s%41", Undefined, Body("null", ""), Undefined, o) :
     m \in Methods, o \in Opts}

Response(statusCode, contentType, errorType, requestId, body) ==
  LET h1 == IF contentType = Undefined THEN <<>> ELSE << <<"content-type", contentType[1]>> >>
      h2 == IF errorType = Undefined THEN h1 ELSE Append(h1, <<"x-fc-error-type", errorType[1]>>)
      h3 == IF requestId = Undefined THEN h2 ELSE Append(h2, <<"x-fc-request-id", requestId[1]>>)
  IN  [statusCode |-> statusCode, headers |-> h3, body |-> body]

ResponseBodies ==
  {"{\"ErrorCode\":\"ServiceNotFound\",\"ErrorMessage\":\"foo\"}",
   "{\"ErrorCode\":\"AccessDenied\",\"errorMessage\":\"bar\"}",
   "{\"serviceName\":\"s\"}",
   "null",
   "hello {"}

\* Every combination of status, headers and body of a response.
Responses ==
  {Response(st, ct, et, rid, b) :
     st \in {199, 200, 299, 300, 404},
     ct \in {Undefined, Some("application/json"), Some("application/json; charset=utf-8"),
             Some("text/plain")},
     et \in {Undefined, Some("UnhandledInvocationError")},
     rid \in {Undefined, Some("rid-1")},
     b \in ResponseBodies}

\* A few responses, for the behaviours that vary the request.
ResponsesBasic ==
  {Response(st, Some("application/json"), Undefined, Some("rid-1"), b) :
     st \in {200, 404},
     b \in {"{\"ErrorCode\":\"ServiceNotFound\",\"ErrorMessage\":\"foo\"}"}}

\* The errors httpx.request and httpx.read reject with.
TransportErrors == {Err("RequestTimeoutError", Undefined, "ReadTimeout(60000)"),
                    Err("Error", Undefined, "connect ECONNREFUSED")}

-----------------------------------------------------------------------------
(* The state machine                                                       *)

NoArgs == Args("", "", Undefined, Body("null", ""), Undefined, [rawBuf |-> FALSE])

NoPrepared ==
  [threw |-> "", signedPath |-> "", signedHeaders |-> <<>>, signedQueries |-> Undefined,
   stringToSign |-> "", url |-> "", method |-> "", timeout |-> 0, headers |-> <<>>,
   data |-> NoData]

\* getServiceName
getServiceName(serviceName, qualifier) ==
  IF Truthy(qualifier) THEN serviceName \o "." \o qualifier[1] ELSE serviceName

\* FCClient.post: the arguments it gives to request. queries and opts are
\* Undefined when the argument is undefined; queries is Some(Undefined) for
\* null and Some(Some(mapping)) for a mapping.
post(path, body, headers, queries, opts) ==
  Args("POST", path, IF queries = Undefined THEN Some(<<>>) ELSE queries[1], body, headers,
       IF opts = Undefined THEN [rawBuf |-> FALSE] ELSE opts[1])

\* invokeFunction without the test of the event.
invokeFunctionAnyEvent(serviceName, functionName, event, headers, qualifier, opts) ==
  [threw |-> FALSE,
   args |-> post("/services/" \o getServiceName(serviceName, qualifier) \o "/functions/"
                   \o functionName \o "/invocations",
                 event, headers, Some(Undefined), opts)]

\* FCClient.invokeFunction: threw is TRUE when it throws the TypeError, else
\* args holds the arguments of the call of request it makes through post.
invokeFunction(serviceName, functionName, event, headers, qualifier, opts) ==
  IF BodyTruthy(event) /\ event.kind # "string" /\ event.kind # "buffer"
  THEN [threw |-> TRUE, args |-> NoArgs]
  ELSE [threw |-> FALSE,
        args |-> post("/services/" \o getServiceName(serviceName, qualifier) \o "/functions/"
                        \o functionName \o "/invocations",
                      event, headers, Some(Undefined), opts)]

\* The arguments of a call of invokeFunction.
Invocation(serviceName, functionName, event, headers, qualifier, opts) ==
  [serviceName |-> serviceName, functionName |-> functionName, event |-> event,
   headers |-> headers, qualifier |-> qualifier, opts |-> opts]

\* A call of request that has not started. pc is "idle", "request" (awaiting
\* httpx.request), "read" (awaiting httpx.read) or "done"; sends counts the
\* calls of httpx.request the call has made; req is what the call signed and
\* handed to the transport; responseBody is what httpx.read resolved with;
\* callerHeaders is the caller's headers object as the call has left it; via
\* holds the arguments of invokeFunction when the call was made through it.
IdleCall ==
  [pc |-> "idle", args |-> NoArgs, now |-> "", req |-> NoPrepared, sends |-> 0,
   response |-> Undefined, encoding |-> "", responseBody |-> Undefined,
   result |-> Pending, callerHeaders |-> Undefined, via |-> Undefined]

TypeOK ==
  /\ Len(client) <= 1
  /\ wire \in 0..Cardinality(DOMAIN calls)
  /\ \A c \in DOMAIN calls : calls[c].pc \in {"idle", "request", "read", "done"}

\* A use of composeStringToSign and buildCanonicalHeaders on their own: the
\* arguments, the string composeStringToSign returned (out) and the lines
\* buildCanonicalHeaders returned (lines), each Undefined until it returns.
Canon(method, path, headers, queries) ==
  [method |-> method, path |-> path, headers |-> headers, queries |-> queries,
   out |-> Undefined, lines |-> Undefined]

NoCanon == Canon("", "", <<>>, Undefined)

\* given holds the arguments of the constructor call once it is made; wire
\* counts the calls of httpx.request made by all calls.
Init ==
  /\ given = Undefined
  /\ client = Undefined
  /\ ctorError = ""
  /\ calls = [c \in {1} |-> IdleCall]
  /\ wire = 0
  /\ canon = NoCanon

\* new FCClient(accountId, config)
Construct(accountId, config) ==
  /\ given = Undefined
  /\ given' = Some([accountId |-> accountId, config |-> config])
  /\ LET made == FCClient(accountId, config)
     IN  /\ client' = made.self
         /\ ctorError' = made.error
  /\ UNCHANGED <<calls, wire, canon>>

\* The synchronous part of request for the call c, made directly (via is
\* Undefined) or through invokeFunction.
Start(c, args, now, via) ==
  /\ client # Undefined
  /\ calls[c].pc = "idle"
  /\ LET req == prepare(client[1], args.method, args.path, args.query, args.body,
                        args.headers, now)
         objects == writeHeaders(client[1], args.headers, now,
                                 lastHeaders(client[1], args.headers, now, req))
     IN  /\ client' = Some([client[1] EXCEPT !.headers = objects.client])
         /\ IF req.threw # ""
            THEN /\ calls' = [calls EXCEPT ![c] =
                       [IdleCall EXCEPT !.pc = "done", !.args = args, !.now = now,
                          !.result = Rejected(Err(req.threw, Undefined, "")),
                          !.callerHeaders = objects.caller, !.via = via]]
                 /\ wire' = wire
            ELSE /\ calls' = [calls EXCEPT ![c] =
                       [IdleCall EXCEPT !.pc = "request", !.args = args, !.now = now,
                          !.req = req, !.sends = 1,
                          !.callerHeaders = objects.caller, !.via = via]]
                 /\ wire' = wire + 1
  /\ UNCHANGED <<given, ctorError, canon>>

\* client.request(method, path, query, body, headers, opts), run to its first
\* await: the call of httpx.request, unless an exception ends it before.
Request(c, args, now) == Start(c, args, now, Undefined)

\* client.invokeFunction(serviceName, functionName, event, headers, qualifier,
\* opts), run to the first await of the call of request it makes, unless it
\* throws before.
InvokeFunction(c, inv, now) ==
  LET made == invokeFunction(inv.serviceName, inv.functionName, inv.event, inv.headers,
                             inv.qualifier, inv.opts)
  IN  IF made.threw
      THEN /\ client # Undefined
           /\ calls[c].pc = "idle"
           /\ calls' = [calls EXCEPT ![c] =
                 [IdleCall EXCEPT !.pc = "done", !.now = now, !.via = Some(inv),
                    !.result = Thrown(Err("TypeError", Undefined,
                                          "\"event\" must be String or Buffer"))]]
           /\ UNCHANGED <<given, client, ctorError, wire, canon>>
      ELSE Start(c, made.args, now, Some(inv))

\* TransportFail with a retry: the failed transport call is made once more.
TransportFailRetry(c, error) ==
  /\ calls[c].pc = "request"
  /\ IF calls[c].sends < 2
     THEN /\ calls' = [calls EXCEPT ![c].sends = @ + 1]
          /\ wire' = wire + 1
     ELSE /\ calls' = [calls EXCEPT ![c].pc = "done", ![c].result = Rejected(error)]
          /\ wire' = wire
  /\ UNCHANGED <<given, client, ctorError, canon>>

\* httpx.request rejects (a network failure or the timeout).
TransportFail(c, error) ==
  /\ calls[c].pc = "request"
  /\ calls' = [calls EXCEPT ![c].pc = "done", ![c].result = Rejected(error)]
  /\ UNCHANGED <<given, client, ctorError, wire, canon>>

\* httpx.request resolves with the response; request calls httpx.read.
Respond(c, response) ==
  /\ calls[c].pc = "request"
  /\ calls' = [calls EXCEPT ![c].pc = "read",
                            ![c].response = Some(response),
                            ![c].encoding = readEncoding(calls[c].args.opts, response)]
  /\ UNCHANGED <<given, client, ctorError, wire, canon>>

\* httpx.read rejects.
ReadFail(c, error) ==
  /\ calls[c].pc = "read"
  /\ calls' = [calls EXCEPT ![c].pc = "done", ![c].result = Rejected(error)]
  /\ UNCHANGED <<given, client, ctorError, wire, canon>>

\* httpx.read resolves with the body; request runs to its end.
ReadDone(c) ==
  /\ calls[c].pc = "read"
  /\ calls' = [calls EXCEPT
       ![c].pc = "done",
       ![c].responseBody = Some(read(calls[c].response[1], calls[c].encoding)),
       ![c].result = interpret(calls[c].args.method, calls[c].args.path,
                               calls[c].response[1],
                               read(calls[c].response[1], calls[c].encoding))]
  /\ UNCHANGED <<given, client, ctorError, wire, canon>>

NextOver(requests, responses) ==
  \/ \E a \in AccountIds, cfg \in Configs : Construct(a, cfg)
  \/ \E c \in DOMAIN calls, args \in requests, now \in Dates : Request(c, args, now)
  \/ \E c \in DOMAIN calls, e \in TransportErrors : TransportFail(c, e)
  \/ \E c \in DOMAIN calls, r \in responses : Respond(c, r)
  \/ \E c \in DOMAIN calls, e \in TransportErrors : ReadFail(c, e)
  \/ \E c \in DOMAIN calls : ReadDone(c)

\* Every request, a few responses.
Next == NextOver(RequestInputs, ResponsesBasic)

Spec == Init /\ [][Next]_vars

\* A few requests, every response.
NextResponses == NextOver(RequestInputsBasic, Responses)

SpecResponses == Init /\ [][NextResponses]_vars

\* The calls that may be in flight together.
MaxCalls == 2

\* An STS client with every optional field set, and a client with a plain
\* key and an endpoint of its own.
ConfigsConcurrent ==
  {Some([accessKeyID |-> Some("STS.ak"), accessKeySecret |-> Some("sk"),
         region |-> Some("cn-shanghai"), securityToken |-> Some("tok"),
         headers |-> Some(ClientHeaders), secure |-> Some("true"),
         internal |-> Some("true"), endpoint |-> Undefined, timeout |-> Some(5000)]),
   Some([accessKeyID |-> Some("ak"), accessKeySecret |-> Some("sk"),
         region |-> Some("cn-shanghai"), securityToken |-> Undefined,
         headers |-> Undefined, secure |-> Undefined,
         internal |-> Undefined, endpoint |-> Some("http://localhost:8080"),
         timeout |-> Undefined])}

\* Requests that differ in every argument, and one that throws before the
\* transport is reached.
RequestInputsConcurrent ==
  {Args("GET", "/proxy/s/f/x",
        Some(<< <<"b", QArr(<<"2", "1">>)>>, <<"a", QStr("x y")>> >>),
        Body("string", "hi"),
        Some(<< <<"x-fc-invocation-type", "Async">>,
                <<"date", "Thu, 01 Jan 1970 00:00:00 GMT">>, <<"X-Call", "2">> >>),
        [rawBuf |-> TRUE]),
   Args("POST", "/services/s%41", Undefined, Body("object", "{\"serviceName\":\"s\"}"),
        Some(<< <<"content-type", "text/plain">>, <<"content-length", "99">>,
                <<"content-md5", "bogus">> >>),
        [rawBuf |-> FALSE]),
   Args("POST", "/services/s%41", Undefined, Body("circular", ""), Undefined,
        [rawBuf |-> FALSE])}

ResponsesConcurrent ==
  {Response(200, Some("application/json"), Undefined, Some("rid-1"), "{\"serviceName\":\"s\"}"),
   Response(404, Some("text/plain"), Some("UnhandledInvocationError"), Some("rid-2"), "hello {")}

InitConcurrent ==
  /\ given = Undefined
  /\ client = Undefined
  /\ ctorError = ""
  /\ calls = [c \in 1..MaxCalls |-> IdleCall]
  /\ wire = 0
  /\ canon = NoCanon

\* Calls of request on one client, each started while others are suspended
\* at httpx.request or httpx.read.
NextConcurrent ==
  \/ \E cfg \in ConfigsConcurrent : Construct("acct", cfg)
  \/ \E c \in DOMAIN calls, args \in RequestInputsConcurrent, now \in Dates :
       Request(c, args, now)
  \/ \E c \in DOMAIN calls, e \in TransportErrors : TransportFail(c, e)
  \/ \E c \in DOMAIN calls, r \in ResponsesConcurrent : Respond(c, r)
  \/ \E c \in DOMAIN calls, e \in TransportErrors : ReadFail(c, e)
  \/ \E c \in DOMAIN calls : ReadDone(c)

SpecConcurrent == InitConcurrent /\ [][NextConcurrent]_vars

\* Signed paths: inside the passthrough prefix, outside it with an escaped
\* character, and with a malformed escape.
CanonPaths == {"/2016-08-15/proxy/s/f/x", "/2016-08-15/services/s%41", "/2016-08-15/%"}

\* Header mappings: none; the three named headers with selected headers out
\* of order and one that is not selected; a selected key in upper case with
\* a trailing space; an empty content-md5; two keys that differ only in
\* case, in both orders.
CanonHeaders ==
  {<<>>,
   << <<"date", "Tue, 15 Nov 1994 08:12:31 GMT">>, <<"content-md5", "base64(md5hex(hi))">>,
      <<"content-type", "application/json">>, <<"x-fc-b", "2">>, <<"accept", "*/*">>,
      <<"x-fc-a", "1">> >>,
   << <<"X-Fc-Trace ", "t">>, <<"x-fc-a", "1">>, <<"X-Call", "2">>,
      <<"date", "Tue, 15 Nov 1994 08:12:31 GMT">> >>,
   << <<"content-md5", "">>, <<"x-fc-account-id", "acct">> >>,
   << <<"X-Fc-A", "1">>, <<"x-fc-a", "2">>, <<"date", "Tue, 15 Nov 1994 08:12:31 GMT">> >>,
   << <<"x-fc-a", "2">>, <<"X-Fc-A", "1">>, <<"date", "Tue, 15 Nov 1994 08:12:31 GMT">> >>}

\* Query mappings: none, the empty one, string and array values in two
\* orders, a number, an empty array next to a string.
CanonQueries ==
  {Undefined,
   Some(<<>>),
   Some(<< <<"b", QArr(<<"2", "1">>)>>, <<"a", QStr("x y")>> >>),
   Some(<< <<"a", QStr("x y")>>, <<"b", QArr(<<"2", "1">>)>> >>),
   Some(<< <<"limit", QNum("10")>> >>),
   Some(<< <<"tags", QArr(<<>>)>>, <<"a", QStr("1")>> >>)}

InitCanonical ==
  /\ given = Undefined
  /\ client = Undefined
  /\ ctorError = ""
  /\ calls = [c \in {1} |-> IdleCall]
  /\ wire = 0
  /\ canon \in {Canon(m, p, h, q) :
                  m \in Methods, p \in CanonPaths, h \in CanonHeaders, q \in CanonQueries}

\* composeStringToSign(method, path, headers, queries) returns or throws.
ComposeStringToSign ==
  /\ canon.out = Undefined
  /\ canon' = [canon EXCEPT !.out =
                  Some(composeStringToSign(canon.method, canon.path, canon.headers,
                                           canon.queries))]
  /\ UNCHANGED <<given, client, ctorError, calls, wire>>

\* buildCanonicalHeaders(headers, 'x-fc-') returns.
BuildCanonicalHeaders ==
  /\ canon.lines = Undefined
  /\ canon' = [canon EXCEPT !.lines = Some(buildCanonicalHeaders(canon.headers, "x-fc-"))]
  /\ UNCHANGED <<given, client, ctorError, calls, wire>>

NextCanonical == ComposeStringToSign \/ BuildCanonicalHeaders

\* The canonical string builder on its own, on every combination of inputs.
SpecCanonical == InitCanonical /\ [][NextCanonical]_vars

\* Calls of invokeFunction: a service name with a malformed escape among
\* the names; no event, texts, Buffers, an object and numbers as events.
Invocations ==
  {Invocation(s, "f", e, h, q, o) :
     s \in {"s", "s%"},
     e \in {Body("null", ""), Body("string", ""), Body("string", "e"), Body("buffer", ""),
            Body("buffer", "abc"), Body("object", "{}"), Body("number", "0"),
            Body("number", "5")},
     h \in {Undefined, Some(<< <<"x-fc-invocation-type", "Async">> >>)},
     q \in {Undefined, Some(""), Some("LATEST")},
     o \in {Undefined, Some([rawBuf |-> FALSE]), Some([rawBuf |-> TRUE])}}

NextInvoke ==
  \/ \E cfg \in ConfigsConcurrent : Construct("acct", cfg)
  \/ \E c \in DOMAIN calls, inv \in Invocations, now \in Dates : InvokeFunction(c, inv, now)
  \/ \E c \in DOMAIN calls, e \in TransportErrors : TransportFail(c, e)
  \/ \E c \in DOMAIN calls, r \in ResponsesConcurrent : Respond(c, r)
  \/ \E c \in DOMAIN calls, e \in TransportErrors : ReadFail(c, e)
  \/ \E c \in DOMAIN calls : ReadDone(c)

\* Calls of invokeFunction on a client.
SpecInvoke == Init /\ [][NextInvoke]_vars

-----------------------------------------------------------------------------
(* Properties                                                              *)

CallIds == DOMAIN calls

\* The call has handed a request to the transport.
Reached(c) == calls[c].sends > 0

IsProxyPath(path) == StartsWith(path, "/proxy/")

NonEmptyQuery(query) == query # Undefined /\ query[1] # <<>>

\* The key=value pairs of a query mapping: one per string value and one per
\* element of an array value.
PairsOf(query) ==
  {query[i][1] \o "=" \o query[i][2].v[j] :
     <<i, j>> \in {<<i, j>> \in (DOMAIN query) \X (1..2) :
                    /\ query[i][2].type \in {"string", "array"}
                    /\ j \in DOMAIN query[i][2].v}}

\* The canonical string of the call's method, path and signed headers when
\* no query is signed.
UnsignedQueryString(c) ==
  composeStringToSign(calls[c].args.method, calls[c].req.signedPath,
                      calls[c].req.signedHeaders, Undefined).value

\* What follows the query-less canonical string in the string the call signed.
SignedTail(c) ==
  SubSeq(calls[c].req.stringToSign, Len(UnsignedQueryString(c)) + 1,
         Len(calls[c].req.stringToSign))

\* The url the call hands to the transport: the query, serialized, follows
\* a "?" when the mapping has a key.
UrlCarriesQuery(c) ==
  LET base == client[1].endpoint \o "/" \o client[1].version \o calls[c].args.path
      query == calls[c].args.query
  IN  calls[c].req.url =
        IF NonEmptyQuery(query)
        THEN base \o "?" \o URLSearchParamsToString(query[1]) ELSE base

\* C1: the query is signed only on a path that begins with /proxy/. A call
\* with another path sends its query in the url and gives no query to the
\* signature (the signed string ends with the path); a call with a /proxy/
\* path sends the query in the url and gives the same mapping to the
\* signature, whose string carries the mapping's string values and array
\* elements as key=value lines after the path.
QuerySigningAsymmetry ==
  \A c \in CallIds : Reached(c) =>
    LET query == calls[c].args.query IN
    /\ UrlCarriesQuery(c)
    /\ ~IsProxyPath(calls[c].args.path) =>
         /\ calls[c].req.signedQueries = Undefined
         /\ SignedTail(c) = ""
    /\ IsProxyPath(calls[c].args.path) =>
         /\ calls[c].req.signedQueries = (IF query = Undefined THEN Some(<<>>) ELSE query)
         /\ StartsWith(SignedTail(c), "\n")
         /\ Range(Lines(Rest(SignedTail(c)))) \ {""} =
              (IF query = Undefined THEN {} ELSE PairsOf(query[1]))

\* C1 witness: a call on a /proxy/ path with a query of string and array
\* values has reached the transport.
QuerySigningAsymmetryWitness ==
  \E c \in CallIds :
    /\ Reached(c)
    /\ IsProxyPath(calls[c].args.path)
    /\ NonEmptyQuery(calls[c].args.query)
    /\ "a=x y" \in Range(Lines(calls[c].req.stringToSign))
    /\ EndsWith(calls[c].req.url, "?b=2%2C1&a=x+y")

\* The bytes a non-streaming body is encoded to.
EncodedBytes(body) == body.data

\* The value of a header in the set the call signed, or in the set it sent.
SignedHeader(c, k) == Get(calls[c].req.signedHeaders, k)

SentHeader(c, k) == Get(calls[c].req.headers, k)

\* C2 (as claimed): every call with a non-streaming body (raw bytes, text or
\* structured value) that reaches the transport signed a header set holding
\* content-length (the byte length of the encoded body) and content-md5
\* (base64 of the hex MD5 of the encoded body), and the string it signed holds
\* that content-md5 and the content-type in its second and third lines.
BodyHeadersSignedForEveryBody ==
  \A c \in CallIds :
    (Reached(c) /\ calls[c].args.body.kind \in {"buffer", "string", "object"}) =>
      LET bytes == EncodedBytes(calls[c].args.body)
          lines == Lines(calls[c].req.stringToSign)
      IN  /\ SignedHeader(c, "content-length") = Some(NumToStr(Len(bytes)))
          /\ SignedHeader(c, "content-md5") = Some(Base64(Md5Hex(bytes)))
          /\ lines[2] = Base64(Md5Hex(bytes))
          /\ Some(lines[3]) = SignedHeader(c, "content-type")

\* The exceptions that end a call before the transport is reached.
ThrownBeforeTransport == {"TypeError", "URIError"}

InvalidArguments(accountId, config) ==
  \/ accountId = ""
  \/ config = Undefined
  \/ /\ config # Undefined
     /\ \/ ~Truthy(config[1].accessKeyID)
        \/ ~Truthy(config[1].accessKeySecret)
        \/ ~Truthy(config[1].region)
        \/ /\ StartsWith(config[1].accessKeyID[1], "STS")
           /\ ~Truthy(config[1].securityToken)

\* C4: construction with an empty account id, access key id, access key
\* secret or region, or with an access key id that begins with STS and no
\* session token, throws: no instance exists afterwards, no call of request
\* starts and no transport call is made.
ConstructionFailsSynchronously ==
  (given # Undefined /\ InvalidArguments(given[1].accountId, given[1].config)) =>
    /\ ctorError # ""
    /\ client = Undefined
    /\ wire = 0
    /\ \A c \in CallIds : calls[c].pc = "idle"

\* C4 witness: construction with an STS key and no session token has failed.
ConstructionFailsSynchronouslyWitness ==
  /\ given # Undefined
  /\ given[1].accountId # ""
  /\ given[1].config # Undefined
  /\ given[1].config[1].accessKeyID = Some("STS.ak")
  /\ given[1].config[1].accessKeySecret = Some("sk")
  /\ given[1].config[1].region = Some("cn-shanghai")
  /\ given[1].config[1].securityToken = Undefined
  /\ ctorError = "\"config.securityToken\" must be passed in for STS"
  /\ client = Undefined

\* The status of the call's response is outside [200, 300).
BadStatus(c) ==
  calls[c].response[1].statusCode < 200 \/ calls[c].response[1].statusCode >= 300

\* The content-type of the call's response begins with application/json.
DeclaredJson(c) ==
  StartsWith(OrEmpty(Get(calls[c].response[1].headers, "content-type")), "application/json")

\* The texts that are JSON documents.
ValidJsonTexts == {JsonDocuments[i][1] : i \in DOMAIN JsonDocuments}

\* The body of the call's response as request holds it after decoding: the
\* parsed document when JSON is declared, else the text or bytes read.
DecodedBody(c) ==
  IF DeclaredJson(c) THEN JSONParse(calls[c].responseBody[1]).value
  ELSE calls[c].responseBody[1]

\* The error of a rejected call says that the request failed with the
\* response's status, and carries its request id, error code and message.
IsApiError(c, body) ==
  LET e == calls[c].result.error
      message == IF HasKey(body.fields, "ErrorMessage") THEN Get(body.fields, "ErrorMessage")
                 ELSE Get(body.fields, "errorMessage")
  IN  /\ calls[c].result.state = "rejected"
      /\ e.code = Get(body.fields, "ErrorCode")
      /\ e.name = "FC" \o ToStr(Get(body.fields, "ErrorCode")) \o "Error"
      /\ e.message = calls[c].args.method \o " " \o calls[c].args.path
                       \o " failed with " \o NumToStr(calls[c].response[1].statusCode)
                       \o ". requestid: "
                       \o ToStr(Get(calls[c].response[1].headers, "x-fc-request-id"))
                       \o ", message: " \o ToStr(message) \o "."

\* C5 (as claimed): every call whose response has a status outside
\* [200, 300) and whose body was read ends rejected with the error made from
\* the status, the x-fc-request-id header, body.ErrorCode and the message
\* field of the body.
ApiErrorForEveryBadStatus ==
  \A c \in CallIds :
    (/\ calls[c].pc = "done"
     /\ calls[c].response # Undefined
     /\ BadStatus(c)
     /\ calls[c].responseBody # Undefined)
    => IsApiError(c, DecodedBody(c))

\* C5 (amended): every call whose response has a status outside [200, 300),
\* whose body was read and, when JSON is declared, parsed to a value other
\* than null, ends rejected with an Error whose message names the method, the
\* path, the status, the x-fc-request-id header and the message (the body's
\* ErrorMessage, else its errorMessage), whose code is body.ErrorCode and
\* whose name is FC<ErrorCode>Error.
ApiErrorForDecodedBadStatus ==
  \A c \in CallIds :
    (/\ calls[c].pc = "done"
     /\ calls[c].response # Undefined
     /\ BadStatus(c)
     /\ calls[c].responseBody # Undefined
     /\ DeclaredJson(c) => calls[c].response[1].body \in ValidJsonTexts \ {"null"})
    => IsApiError(c, DecodedBody(c))

\* C5 witness: a 404 with error code ServiceNotFound, message foo and a
\* request id has ended with the error that carries them.
ApiErrorForDecodedBadStatusWitness ==
  \E c \in CallIds :
    /\ calls[c].pc = "done"
    /\ calls[c].response # Undefined
    /\ calls[c].response[1].statusCode = 404
    /\ calls[c].result.state = "rejected"
    /\ calls[c].result.error.code = Some("ServiceNotFound")
    /\ calls[c].result.error.name = "FCServiceNotFoundError"
    /\ calls[c].result.error.message =
         "GET /services/s%41 failed with 404. requestid: rid-1, message: foo."

\* The headers given at construction and those given to the call.
PersistentHeaders ==
  IF given[1].config[1].headers = Undefined THEN <<>> ELSE given[1].config[1].headers[1]

OwnHeaders(c) ==
  IF calls[c].args.headers = Undefined THEN <<>> ELSE calls[c].args.headers[1]

\* The value the caller gives a header: the call's, else the client's.
GivenHeader(c, k) ==
  IF HasKey(OwnHeaders(c), k) THEN Get(OwnHeaders(c), k) ELSE Get(PersistentHeaders, k)

\* The headers request writes after the three sources are merged.
BodyDerivedKeys == {"content-type", "content-length", "content-md5"}

WrittenLater == BodyDerivedKeys \cup {"authorization"}

\* C6: in the headers a call sends, every key of the computed defaults, of
\* the client-level headers and of the call-level headers is present, and a
\* key that request does not write afterwards (the body-derived headers and
\* authorization) has the value of the last source that holds it: the
\* call's, else the client's, else the default.
HeaderPrecedence ==
  \A c \in CallIds : Reached(c) =>
    LET defaults == buildHeaders(client[1], calls[c].now)
        keys == Range(Keys(defaults)) \cup Range(Keys(PersistentHeaders))
                  \cup Range(Keys(OwnHeaders(c)))
    IN  \A k \in keys :
          /\ HasKey(calls[c].req.headers, k)
          /\ k \notin WrittenLater =>
               SentHeader(c, k) = IF GivenHeader(c, k) # Undefined THEN GivenHeader(c, k)
                                  ELSE Get(defaults, k)

\* C6 witness: a call sent with a call-level header that overrides a
\* client-level one, a client-level header that overrides a default, a
\* call-level header that overrides a default, and headers of distinct keys
\* from the three sources.
HeaderPrecedenceWitness ==
  \E c \in CallIds :
    /\ Reached(c)
    /\ Get(PersistentHeaders, "x-fc-invocation-type") = Some("Sync")
    /\ SentHeader(c, "x-fc-invocation-type") = Some("Async")
    /\ SentHeader(c, "accept") = Some("*/*")
    /\ SentHeader(c, "date") = Some("Thu, 01 Jan 1970 00:00:00 GMT")
    /\ SentHeader(c, "x-client") = Some("1")
    /\ SentHeader(c, "X-Call") = Some("2")
    /\ SentHeader(c, "host") = Some("acct.cn-shanghai.fc.aliyuncs.com")

\* The value request derives for a header from a body: none for a body it
\* takes as absent (a falsy one), and no length or digest for a stream.
DerivedHeader(body, k) ==
  CASE k = "content-type" ->
         IF ~BodyTruthy(body) THEN Undefined
         ELSE IF body.kind = "object" THEN Some("application/json")
         ELSE Some("application/octet-stream")
    [] k = "content-length" ->
         IF ~BodyTruthy(body) \/ IsStream(body) THEN Undefined
         ELSE Some(NumToStr(Len(EncodedBytes(body))))
    [] k = "content-md5" ->
         IF ~BodyTruthy(body) \/ IsStream(body) THEN Undefined
         ELSE Some(Base64(Md5Hex(EncodedBytes(body))))

\* C7 (as claimed): in every call the content-type, content-length and
\* content-md5 that are signed and sent are the ones derived from the body,
\* whatever the caller gives for them (stated for every body but the empty
\* text, which C2 is about).
BodyHeadersNeverFromCaller ==
  \A c \in CallIds : (Reached(c) /\ calls[c].args.body # Body("string", "")) =>
    \A k \in BodyDerivedKeys :
      /\ SentHeader(c, k) = DerivedHeader(calls[c].args.body, k)
      /\ SignedHeader(c, k) = DerivedHeader(calls[c].args.body, k)

\* C7 (amended): in a call whose body is truthy the content-type that is
\* signed and sent is the one derived from the body, and when that body is
\* not a stream so are the content-length and content-md5, whatever the
\* caller gives for them; a header of the three that the call does not
\* derive (every one for a falsy body, length and digest for a stream) is
\* signed and sent with the value the caller gives, if any.
BodyHeadersOverrideCaller ==
  \A c \in CallIds : Reached(c) =>
    LET body == calls[c].args.body
    IN  \A k \in BodyDerivedKeys :
          /\ SentHeader(c, k) = SignedHeader(c, k)
          /\ SentHeader(c, k) = IF DerivedHeader(body, k) # Undefined
                                THEN DerivedHeader(body, k)
                                ELSE GivenHeader(c, k)

\* C7 witness: a call with a text body and caller-given content-type,
\* content-length and content-md5 was sent with the values of the body.
BodyHeadersOverrideCallerWitness ==
  \E c \in CallIds :
    /\ Reached(c)
    /\ calls[c].args.body = Body("string", "hi")
    /\ GivenHeader(c, "content-type") = Some("text/plain")
    /\ GivenHeader(c, "content-length") = Some("99")
    /\ GivenHeader(c, "content-md5") = Some("bogus")
    /\ SentHeader(c, "content-type") = Some("application/octet-stream")
    /\ SentHeader(c, "content-length") = Some("2")
    /\ SentHeader(c, "content-md5") = Some("base64(md5hex(hi))")

\* C8 (as claimed): a call with a stream body signs and sends no
\* content-length and no content-md5, and hands the stream to the transport.
StreamNeverCarriesLengthOrDigest ==
  \A c \in CallIds : (Reached(c) /\ IsStream(calls[c].args.body)) =>
    /\ \A k \in {"content-length", "content-md5"} :
         SentHeader(c, k) = Undefined /\ SignedHeader(c, k) = Undefined
    /\ calls[c].req.data = [kind |-> "stream", data |-> calls[c].args.body.data]

\* C8 (amended): a call with a stream body computes no content-length and
\* no content-md5: each of the two is signed and sent only when the call-level
\* or client-level headers give it, with the value they give; the data handed
\* to the transport is the stream, and the content-type is
\* application/octet-stream.
StreamAddsNoLengthOrDigest ==
  \A c \in CallIds : (Reached(c) /\ IsStream(calls[c].args.body)) =>
    /\ \A k \in {"content-length", "content-md5"} :
         SentHeader(c, k) = GivenHeader(c, k) /\ SignedHeader(c, k) = GivenHeader(c, k)
    /\ Lines(calls[c].req.stringToSign)[2] = OrEmpty(GivenHeader(c, "content-md5"))
    /\ SentHeader(c, "content-type") = Some("application/octet-stream")
    /\ calls[c].req.data = [kind |-> "stream", data |-> calls[c].args.body.data]

\* C8 witness: a call with a stream body and no caller-given length or digest
\* reached the transport with neither header and the stream as its data.
StreamAddsNoLengthOrDigestWitness ==
  \E c \in CallIds :
    /\ Reached(c)
    /\ IsStream(calls[c].args.body)
    /\ ~HasKey(calls[c].req.headers, "content-length")
    /\ ~HasKey(calls[c].req.headers, "content-md5")
    /\ HasKey(calls[c].req.headers, "authorization")
    /\ calls[c].req.data.kind = "stream"

ParseFailureRejects ==
  \A c \in CallIds :
    (/\ calls[c].pc = "done"
     /\ calls[c].responseBody # Undefined
     /\ DeclaredJson(c)
     /\ calls[c].response[1].body \notin ValidJsonTexts)
    => /\ calls[c].result.state = "rejected"
       /\ calls[c].result.error.name = "SyntaxError"
       /\ calls[c].result.data = NoValue

\* C10 witness: a 404 that declares JSON with a body that is no JSON
\* document has ended rejected with the SyntaxError.
ParseFailureRejectsWitness ==
  \E c \in CallIds :
    /\ calls[c].pc = "done"
    /\ calls[c].responseBody # Undefined
    /\ calls[c].response[1].statusCode = 404
    /\ DeclaredJson(c)
    /\ calls[c].response[1].body = "hello {"
    /\ calls[c].result.state = "rejected"
    /\ calls[c].result.error.name = "SyntaxError"

\* The call's response has been read and, when JSON is declared, parses.
Decodes(c) ==
  /\ calls[c].responseBody # Undefined
  /\ DeclaredJson(c) => calls[c].response[1].body \in ValidJsonTexts

\* C11: a call whose response has a status in [200, 300) and a body that
\* decodes ends fulfilled with the envelope of the response's headers and the
\* decoded body (the parsed value when JSON is declared, else what was read),
\* whatever the body holds; a fulfilled call has a response with a status in
\* [200, 300).
SuccessEnvelope ==
  \A c \in CallIds :
    /\ (calls[c].pc = "done" /\ calls[c].response # Undefined
          /\ ~BadStatus(c) /\ Decodes(c)) =>
         calls[c].result = Fulfilled(calls[c].response[1].headers, DecodedBody(c))
    /\ calls[c].result.state = "fulfilled" =>
         /\ calls[c].response # Undefined
         /\ calls[c].response[1].statusCode \in 200..299

\* C11 witness: a 299 that declares JSON has ended fulfilled with the parsed
\* document, although that document holds error fields.
SuccessEnvelopeWitness ==
  \E c \in CallIds :
    /\ calls[c].pc = "done"
    /\ calls[c].response # Undefined
    /\ calls[c].response[1].statusCode = 299
    /\ DeclaredJson(c)
    /\ calls[c].result.state = "fulfilled"
    /\ calls[c].result.headers = calls[c].response[1].headers
    /\ calls[c].result.data =
         Value("object", "", << <<"ErrorCode", "ServiceNotFound">>, <<"ErrorMessage", "foo">> >>)

\* The instance the constructor made from the arguments it was given.
Constructed == FCClient(given[1].accountId, given[1].config).self

\* C12: after every call of request the client holds the access key id,
\* access key secret, session token, endpoint, host, version, timeout and
\* client-level headers the constructor set, and the headers object the
\* caller gave to a call holds what it held when the call was made.
ClientStateUnchanged ==
  /\ given # Undefined =>
       /\ client = Constructed
       /\ client # Undefined =>
            \A f \in {"accessKeyID", "accessKeySecret", "securityToken", "endpoint",
                       "host", "version", "timeout", "headers"} :
              client[1][f] = Constructed[1][f]
  /\ \A c \in CallIds :
       calls[c].pc # "idle" => calls[c].callerHeaders = calls[c].args.headers

\* C12 witness: on a client with headers, a timeout and routing flags of its
\* own, a call with a body and call-level headers has ended and another has
\* been sent; the client holds what was configured.
ClientStateUnchangedWitness ==
  /\ client # Undefined
  /\ client[1].timeout = 5000
  /\ client[1].headers = ClientHeaders
  /\ client[1].securityToken = Some("tok")
  /\ client[1].endpoint = "https://acct.cn-shanghai-internal.fc.aliyuncs.com"
  /\ client[1].host = "acct.cn-shanghai-internal.fc.aliyuncs.com"
  /\ \E c, d \in CallIds :
       /\ c # d
       /\ calls[c].pc = "done"
       /\ calls[c].sends = 1
       /\ calls[c].args.body = Body("string", "hi")
       /\ calls[c].callerHeaders # Undefined
       /\ Len(calls[c].req.headers) > Len(calls[c].callerHeaders[1])
       /\ Reached(d)

\* What a call does when it runs alone on the client as constructed.
Alone(c) ==
  prepare(Constructed[1], calls[c].args.method, calls[c].args.path, calls[c].args.query,
          calls[c].args.body, calls[c].args.headers, calls[c].now)

\* The call has sent what it sends alone, and has returned what it returns
\* alone for the response it was given.
AsIfAlone(c) ==
  /\ LET alone == Alone(c)
     IN  IF alone.threw # ""
         THEN /\ calls[c].sends = 0
              /\ calls[c].result = Rejected(Err(alone.threw, Undefined, ""))
         ELSE /\ calls[c].sends = 1
              /\ calls[c].req = alone
  /\ calls[c].response # Undefined =>
       calls[c].encoding = readEncoding(calls[c].args.opts, calls[c].response[1])
  /\ (calls[c].pc = "done" /\ calls[c].responseBody # Undefined) =>
       /\ calls[c].responseBody = Some(read(calls[c].response[1], calls[c].encoding))
       /\ calls[c].result = interpret(calls[c].args.method, calls[c].args.path,
                                      calls[c].response[1], calls[c].responseBody[1])

\* C13: under every interleaving of the calls of request on one client at
\* their suspension points, each call sends the method, url, headers
\* (authorization included) and body it sends when it runs alone and returns
\* the result it returns alone for its own response, and a step of one call
\* changes nothing another call holds.
IsolatedCalls ==
  /\ [](\A c \in CallIds : calls[c].pc # "idle" => AsIfAlone(c))
  /\ [][Cardinality({c \in CallIds : calls'[c] # calls[c]}) <= 1]_vars

\* C13 witness: a call has been fulfilled with its own response while a
\* call with other arguments and another response awaits its body.
IsolatedCallsWitness ==
  \E c, d \in CallIds :
    /\ c # d
    /\ calls[c].pc = "done"
    /\ calls[c].result.state = "fulfilled"
    /\ calls[c].args.path = "/proxy/s/f/x"
    /\ calls[d].pc = "read"
    /\ calls[d].args.path = "/services/s%41"
    /\ calls[d].args.body.kind = "object"
    /\ calls[d].response # calls[c].response
    /\ calls[c].req.headers # calls[d].req.headers
    /\ SentHeader(c, "content-md5") = Some("base64(md5hex(hi))")
    /\ SentHeader(d, "content-type") = Some("application/json")

\* The mappings that hold the pairs of a mapping in some insertion order.
Orderings(obj) == {[i \in DOMAIN obj |-> obj[p[i]]] : p \in Permutations(DOMAIN obj)}

QueryOrderings(queries) ==
  IF queries = Undefined THEN {Undefined} ELSE {Some(q) : q \in Orderings(queries[1])}

\* No two keys of the mapping are the same once lower-cased and trimmed.
DistinctLowerKeys(headers) ==
  \A i, j \in DOMAIN headers :
    Trim(ToLowerCase(headers[i][1])) = Trim(ToLowerCase(headers[j][1])) => i = j

\* C14: the string composeStringToSign returns for a method, a path, a
\* header mapping and a query mapping is the string it returns for the same
\* method and path and the same pairs of the two mappings in every other
\* insertion order.
InsertionOrderIndependent ==
  canon.out # Undefined =>
    \A h \in Orderings(canon.headers), q \in QueryOrderings(canon.queries) :
      composeStringToSign(canon.method, canon.path, h, q) = canon.out[1]

\* The part of C14 that holds: the same, for header mappings whose keys stay
\* distinct once lower-cased and trimmed.
InsertionOrderIndependentDistinctKeys ==
  (canon.out # Undefined /\ DistinctLowerKeys(canon.headers)) =>
    \A h \in Orderings(canon.headers), q \in QueryOrderings(canon.queries) :
      composeStringToSign(canon.method, canon.path, h, q) = canon.out[1]

\* The headers buildCanonicalHeaders selects, in the mapping's order, each
\* as its lower-cased, trimmed key and its own value.
SelectedPairs(headers) ==
  SelectSeq([i \in DOMAIN headers |->
               <<Trim(ToLowerCase(headers[i][1])), headers[i][2]>>],
            LAMBDA e : StartsWith(e[1], "x-fc-"))

\* A stable sort of pairs, ascending by key: a pair goes behind every pair
\* whose key is not greater.
RECURSIVE InsertStable(_, _)
InsertStable(list, e) ==
  IF list = <<>> THEN <<e>>
  ELSE IF StrLess(e[1], list[1][1]) THEN <<e>> \o list
  ELSE <<list[1]>> \o InsertStable(Tail(list), e)

RECURSIVE StableSort(_)
StableSort(list) ==
  IF list = <<>> THEN <<>>
  ELSE InsertStable(StableSort(SubSeq(list, 1, Len(list) - 1)), list[Len(list)])

\* One line key:value for each pair, in order.
HeaderLines(pairs) ==
  Join([i \in DOMAIN pairs |-> pairs[i][1] \o ":" \o pairs[i][2] \o "\n"], "")

\* C19: the lines buildCanonicalHeaders returns are one line key:value for
\* each header whose key, lower-cased and trimmed, starts with x-fc-,
\* ascending by that key, where headers with the same such key keep each its
\* own value and their order in the mapping.
CanonicalHeaderLinesStable ==
  canon.lines # Undefined =>
    canon.lines[1] = HeaderLines(StableSort(SelectedPairs(canon.headers)))

\* The part of C19 that holds: the same, for mappings whose keys stay
\* distinct once lower-cased and trimmed.
CanonicalHeaderLinesDistinctKeys ==
  (canon.lines # Undefined /\ DistinctLowerKeys(canon.headers)) =>
    canon.lines[1] = HeaderLines(StableSort(SelectedPairs(canon.headers)))

\* The session token given to the constructor.
GivenToken == given[1].config[1].securityToken

\* C15: a call is sent with the header x-fc-security-token exactly when a
\* session token was given at construction, and the header's value is that
\* token (no call-level or client-level header names it), also when the access
\* key id does not begin with STS.
SessionTokenSentWhenGiven ==
  \A c \in CallIds : Reached(c) =>
    /\ SentHeader(c, "x-fc-security-token") =
         (IF Truthy(GivenToken) THEN GivenToken ELSE Undefined)
    /\ Get(buildHeaders(client[1], calls[c].now), "x-fc-security-token") =
         SentHeader(c, "x-fc-security-token")

\* The part of C15 that holds: the header is sent exactly when the access key
\* id begins with STS, with the token given at construction.
SessionTokenSentForStsKey ==
  \A c \in CallIds : Reached(c) =>
    SentHeader(c, "x-fc-security-token") =
      (IF StartsWith(client[1].accessKeyID, "STS") THEN GivenToken ELSE Undefined)

\* The authorization value of the call: FC, the access key id and the
\* signature of the string the call signed.
Authorization(c) ==
  "FC " \o client[1].accessKeyID \o ":"
    \o signString(calls[c].req.stringToSign, client[1].accessKeySecret)

\* The string the call signed is the canonical string of what it gave to
\* getSignature, whose path is /<version><path> of the url it sends.
SignedWhatIsSent(c) ==
  /\ calls[c].req.stringToSign =
       composeStringToSign(calls[c].req.method, calls[c].req.signedPath,
                           calls[c].req.signedHeaders, calls[c].req.signedQueries).value
  /\ calls[c].req.signedPath = "/" \o client[1].version \o calls[c].args.path
  /\ StartsWith(calls[c].req.url, client[1].endpoint \o calls[c].req.signedPath)
  /\ calls[c].req.method = calls[c].args.method

\* C16 (as claimed): the headers a call sends are the headers it gave to
\* getSignature plus one added key, authorization.
SentIsSignedPlusAddedAuthorization ==
  \A c \in CallIds : Reached(c) =>
    /\ ~HasKey(calls[c].req.signedHeaders, "authorization")
    /\ calls[c].req.headers =
         Append(calls[c].req.signedHeaders, <<"authorization", Authorization(c)>>)
    /\ SignedWhatIsSent(c)

\* C16 (amended): the headers a call sends are the headers it gave to
\* getSignature with the key authorization set to FC <id>:<signature>: added
\* when the signed set has no such key, and in place of the value the caller
\* or the client gave when it has one; every other key is sent as signed.
SentIsSignedWithAuthorizationSet ==
  \A c \in CallIds : Reached(c) =>
    LET signed == calls[c].req.signedHeaders
        sent == calls[c].req.headers
    IN  /\ Range(Keys(sent)) = Range(Keys(signed)) \cup {"authorization"}
        /\ \A k \in Range(Keys(sent)) \ {"authorization"} : Get(sent, k) = Get(signed, k)
        /\ Get(sent, "authorization") = Some(Authorization(c))
        /\ Get(signed, "authorization") = GivenHeader(c, "authorization")
        /\ sent = IF HasKey(signed, "authorization")
                  THEN [i \in DOMAIN signed |->
                          IF signed[i][1] = "authorization"
                          THEN <<"authorization", Authorization(c)>> ELSE signed[i]]
                  ELSE Append(signed, <<"authorization", Authorization(c)>>)
        /\ SignedWhatIsSent(c)

\* C16 witness: a call with a text body and no authorization of the caller's
\* was sent with the signed headers, the body-derived ones among them, and
\* the authorization behind them.
SentIsSignedWithAuthorizationSetWitness ==
  \E c \in CallIds :
    /\ Reached(c)
    /\ calls[c].args.body = Body("string", "hi")
    /\ ~HasKey(calls[c].req.signedHeaders, "authorization")
    /\ SignedHeader(c, "content-md5") = Some("base64(md5hex(hi))")
    /\ Len(calls[c].req.headers) = Len(calls[c].req.signedHeaders) + 1
    /\ calls[c].req.headers[Len(calls[c].req.headers)][1] = "authorization"
    /\ StartsWith(calls[c].req.headers[Len(calls[c].req.headers)][2], "FC ak:base64(hmacsha256(sk;POST\n")

\* What the body encoding policy sends for a body: the bytes of a Buffer,
\* of a text and of the JSON text of a structured value, the stream itself,
\* and nothing for an absent body.
PolicyData(body) ==
  CASE body.kind = "null" -> NoData
    [] body.kind = "stream" -> [kind |-> "stream", data |-> body.data]
    [] OTHER -> [kind |-> "buffer", data |-> EncodedBytes(body)]

PolicyContentType(body) ==
  CASE body.kind = "null" -> Undefined
    [] body.kind = "object" -> Some("application/json")
    [] OTHER -> Some("application/octet-stream")

\* The call was sent with the data and content-type of the policy, and with
\* the length and digest of its bytes unless the body is a stream or absent;
\* for an absent body, with no header but those the header sources give.
EncodedByPolicy(c) ==
  LET body == calls[c].args.body
  IN  /\ calls[c].req.data = PolicyData(body)
      /\ body.kind # "null" =>
           /\ SentHeader(c, "content-type") = PolicyContentType(body)
           /\ ~IsStream(body) =>
                /\ SentHeader(c, "content-length") = Some(NumToStr(Len(EncodedBytes(body))))
                /\ SentHeader(c, "content-md5") = Some(Base64(Md5Hex(EncodedBytes(body))))
      /\ body.kind = "null" =>
           \A k \in BodyDerivedKeys : SentHeader(c, k) = GivenHeader(c, k)

\* C17: a Buffer is sent as it is, a text (the empty one included) as its
\* bytes and a stream as it is, each as application/octet-stream, and every
\* other body as the bytes of its JSON text as application/json; only a call
\* without a body is sent with no data and no body-derived header.
BodyEncodingPriority ==
  \A c \in CallIds : Reached(c) => EncodedByPolicy(c)

\* The part of C17 that holds: the same, for every body but the empty text.
BodyEncodingPriorityTruthyText ==
  \A c \in CallIds :
    (Reached(c) /\ calls[c].args.body # Body("string", "")) => EncodedByPolicy(c)

\* The canonical string up to the path: the method, content-md5,
\* content-type (each empty when absent) and date (the text undefined when
\* absent), one per line, then the canonical header lines and the decoded path.
CanonBase ==
  LET md5 == Get(canon.headers, "content-md5")
      type == Get(canon.headers, "content-type")
      date == Get(canon.headers, "date")
  IN  canon.method \o "\n" \o (IF md5 = Undefined THEN "" ELSE md5[1]) \o "\n"
        \o (IF type = Undefined THEN "" ELSE type[1]) \o "\n"
        \o (IF date = Undefined THEN "undefined" ELSE date[1]) \o "\n"
        \o buildCanonicalHeaders(canon.headers, "x-fc-")
        \o DecodeURIComponent(canon.path).value

\* What follows the path in the string composeStringToSign returned.
CanonTail ==
  SubSeq(canon.out[1].value, Len(CanonBase) + 1, Len(canon.out[1].value))

\* The number of pairs of a query mapping: one per string value, one per
\* element of an array value.
RECURSIVE PairCount(_)
PairCount(query) ==
  IF query = <<>> THEN 0
  ELSE (IF query[1][2].type = "string" THEN 1
        ELSE IF query[1][2].type = "array" THEN Len(query[1][2].v)
        ELSE 0) + PairCount(Tail(query))

\* The lines are the pairs of the mapping, each once, ascending as strings.
SortedPairs(lines, query) ==
  /\ Len(lines) = PairCount(query)
  /\ Range(lines) = PairsOf(query)
  /\ \A i, j \in DOMAIN lines : i < j => ~StrLess(lines[j], lines[i])

\* The string composeStringToSign returned starts with the canonical string
\* up to the path.
ComposedFromBase ==
  /\ Len(canon.out[1].value) >= Len(CanonBase)
  /\ SubSeq(canon.out[1].value, 1, Len(CanonBase)) = CanonBase

\* C18 (as claimed): without a query mapping, and with an empty one, the
\* string composeStringToSign returns ends with the decoded path; with a
\* mapping that has a key it goes on with a newline and the mapping's pairs,
\* sorted and joined by newlines, and every key of the mapping has a pair.
QueryPairsOnlyWhenNonEmpty ==
  (canon.out # Undefined /\ canon.out[1].ok) =>
    /\ ComposedFromBase
    /\ IF ~NonEmptyQuery(canon.queries) THEN CanonTail = ""
       ELSE /\ StartsWith(CanonTail, "\n")
            /\ SortedPairs(Lines(Rest(CanonTail)), canon.queries[1])
            /\ \A i \in DOMAIN canon.queries[1] :
                 \E l \in Range(Lines(Rest(CanonTail))) :
                   StartsWith(l, canon.queries[1][i][1] \o "=")

\* C18 (amended): without a query mapping the string composeStringToSign
\* returns ends with the decoded path; with a mapping, empty or not, it goes
\* on with one newline and the mapping's pairs, one per string value and one
\* per element of an array value, sorted and joined by newlines. A mapping
\* without such a value (the empty mapping, a number, an empty array) adds
\* the newline alone.
QueryPairsWhenSupplied ==
  (canon.out # Undefined /\ canon.out[1].ok) =>
    /\ ComposedFromBase
    /\ IF canon.queries = Undefined THEN CanonTail = ""
       ELSE IF PairCount(canon.queries[1]) = 0 THEN CanonTail = "\n"
       ELSE /\ StartsWith(CanonTail, "\n")
            /\ SortedPairs(Lines(Rest(CanonTail)), canon.queries[1])

\* C18 witness: for a mapping with an array and a string value the string
\* returned ends with the path and the three pairs in ascending order.
QueryPairsWhenSuppliedWitness ==
  /\ canon.out # Undefined
  /\ canon.out[1].ok
  /\ canon.queries = Some(<< <<"b", QArr(<<"2", "1">>)>>, <<"a", QStr("x y")>> >>)
  /\ canon.headers = <<>>
  /\ canon.out[1].value =
       "POST\n\n\nundefined\n/2016-08-15/services/sA\na=x y\nb=1\nb=2"

\* The path invokeFunction posts to: the qualifier, when one is given,
\* follows the service name and a dot.
InvocationPath(inv) ==
  "/services/" \o inv.serviceName
    \o (IF inv.qualifier \in {Undefined, Some("")} THEN "" ELSE "." \o inv.qualifier[1])
    \o "/functions/" \o inv.functionName \o "/invocations"

\* The call of invokeFunction has called request with POST, the path of the
\* invocation, no query, the event as body, the caller's headers and the
\* caller's rawBuf option.
RequestedAsInvoked(c) ==
  LET inv == calls[c].via[1]
  IN  /\ calls[c].args.method = "POST"
      /\ calls[c].args.path = InvocationPath(inv)
      /\ calls[c].args.query = Undefined
      /\ calls[c].args.body = inv.event
      /\ calls[c].args.headers = inv.headers
      /\ calls[c].args.opts.rawBuf = (inv.opts # Undefined /\ inv.opts[1].rawBuf)

\* The one transport call of the call of invokeFunction is a POST to the url
\* of the invocation path without a query, and the response is read as raw
\* bytes exactly when the caller set rawBuf and the response has no
\* x-fc-error-type header.
PostedAsInvoked(c) ==
  LET inv == calls[c].via[1]
  IN  /\ calls[c].sends = 1
      /\ calls[c].req.method = "POST"
      /\ calls[c].req.url = client[1].endpoint \o "/" \o client[1].version
                              \o InvocationPath(inv)
      /\ calls[c].req.signedQueries = Undefined
      /\ calls[c].response # Undefined =>
           calls[c].encoding =
             IF /\ inv.opts # Undefined /\ inv.opts[1].rawBuf
                /\ ~HasKey(calls[c].response[1].headers, "x-fc-error-type")
             THEN "raw" ELSE "utf8"

\* The call of invokeFunction has thrown the TypeError and made no call of
\* request and no transport call.
RejectedEvent(c) ==
  /\ calls[c].pc = "done"
  /\ calls[c].result.state = "thrown"
  /\ calls[c].result.error.name = "TypeError"
  /\ calls[c].args = NoArgs
  /\ calls[c].sends = 0
  /\ wire = 0

\* C20 (as claimed): a call of invokeFunction whose event is present and
\* neither a string nor a Buffer throws a TypeError and makes no transport
\* call; a call without an event or with a string or a Buffer as event makes
\* exactly one transport call, a POST to the invocation path with the event
\* as body, no query and the caller's rawBuf. (Nothing is said here of an
\* event that is falsy and not a string, such as 0.)
InvokeValidatesThenPostsOnce ==
  \A c \in CallIds : (calls[c].pc # "idle" /\ calls[c].via # Undefined) =>
    LET event == calls[c].via[1].event
    IN  /\ (BodyTruthy(event) /\ event.kind \notin {"string", "buffer"}) =>
             RejectedEvent(c)
        /\ event.kind \in {"null", "string", "buffer"} =>
             RequestedAsInvoked(c) /\ PostedAsInvoked(c)

\* C20 (amended): a call of invokeFunction whose event is truthy and
\* neither a string nor a Buffer throws a TypeError and makes no call of
\* request and no transport call; every other call (a string, a Buffer or a
\* falsy value as event) calls request once with POST, the invocation path,
\* no query, the event as body, the caller's headers and the caller's
\* rawBuf, and that call makes one transport call, unless the path has a
\* malformed escape: then it makes none and ends rejected with the URIError.
InvokeValidatesTruthyEvent ==
  \A c \in CallIds : (calls[c].pc # "idle" /\ calls[c].via # Undefined) =>
    LET event == calls[c].via[1].event
    IN  IF BodyTruthy(event) /\ event.kind \notin {"string", "buffer"}
        THEN RejectedEvent(c)
        ELSE /\ calls[c].result.state # "thrown"
             /\ RequestedAsInvoked(c)
             /\ IF DecodeURIComponent(InvocationPath(calls[c].via[1])).ok
                THEN /\ PostedAsInvoked(c)
                     /\ calls[c].req.data = IF BodyTruthy(event)
                                            THEN [kind |-> "buffer", data |-> event.data]
                                            ELSE NoData
                ELSE /\ calls[c].sends = 0
                     /\ calls[c].pc = "done"
                     /\ calls[c].result = Rejected(Err("URIError", Undefined, ""))

\* C20 witness: an invocation of a qualified service with a text event and
\* rawBuf set has made its POST and has been fulfilled from raw bytes.
InvokeValidatesTruthyEventWitness ==
  \E c \in CallIds :
    /\ calls[c].pc = "done"
    /\ calls[c].via # Undefined
    /\ calls[c].via[1].event = Body("string", "e")
    /\ calls[c].via[1].qualifier = Some("LATEST")
    /\ calls[c].via[1].opts = Some([rawBuf |-> TRUE])
    /\ calls[c].sends = 1
    /\ wire = 1
    /\ calls[c].req.method = "POST"
    /\ calls[c].req.url =
         "http://localhost:8080/2016-08-15/services/s.LATEST/functions/f/invocations"
    /\ calls[c].req.data = [kind |-> "buffer", data |-> "e"]
    /\ calls[c].encoding = "raw"
    /\ calls[c].result.state = "fulfilled"

\* The part of C2 that holds: a truthy non-streaming body has its length and
\* digest in the signed headers and its digest and type in the signed string.
BodyHeadersSignedForTruthyBody ==
  \A c \in CallIds :
    (/\ Reached(c)
     /\ calls[c].args.body.kind \in {"buffer", "string", "object"}
     /\ BodyTruthy(calls[c].args.body)) =>
      LET bytes == EncodedBytes(calls[c].args.body)
          lines == Lines(calls[c].req.stringToSign)
      IN  /\ SignedHeader(c, "content-length") = Some(NumToStr(Len(bytes)))
          /\ SignedHeader(c, "content-md5") = Some(Base64(Md5Hex(bytes)))
          /\ lines[2] = Base64(Md5Hex(bytes))
          /\ Some(lines[3]) = SignedHeader(c, "content-type")

====
